---- MODULE Spec2Model ----
(***************************************************************************)
(* Model of src/app.py: the HugeGraph loader API.                          *)
(*                                                                         *)
(*   update_file_paths_in_config  the config path resolver                 *)
(*   json_to_groovy               the schema compiler                      *)
(*   load_data                    the /api/load endpoint                   *)
(*                                                                         *)
(* Python objects live in a heap (a sequence of dict and list nodes, an    *)
(* address is an index), so that object identity, aliasing and in-place    *)
(* mutation are visible.  Python str values are sequences of one-character *)
(* strings, so that os.path.basename, the substring test of `in` and       *)
(* str.capitalize are computed and not assumed.                            *)
(***************************************************************************)
EXTENDS Integers, Sequences, FiniteSets, TLC

VARIABLES
    \* update_file_paths_in_config
    heap,            \* the Python heap: Seq of dict / list nodes
    config,          \* the caller's configuration object (argument `config`)
    file_mapping,    \* argument `file_mapping`: Seq of [key, val] (a dict)
    updated_config,  \* local `updated_config`
    iter,            \* the sequence `for item in items` walks
    idx,             \* position of that loop
    rpc,             \* position in update_file_paths_in_config
    rerr,            \* the exception raised by it, "" when none
    before,          \* the value of the caller's configuration at the call
    \* json_to_groovy
    schema_json,     \* argument `schema_json` (a dict)
    schema,          \* local `schema`: the validated SchemaDefinition
    groovy_lines,    \* local `groovy_lines`
    cidx,            \* position of the current `for` loop
    cpc,             \* position in json_to_groovy
    cerr,            \* the exception raised by it, "" when none
    script,          \* the returned string
    \* load_data
    request,         \* the form fields: config, schema_json, files
    lpc,             \* position in load_data
    fs,              \* the files of the job's temporary directory
    schema_path,     \* local `schema_path`
    schema_groovy,   \* local `schema_groovy`
    cmd,             \* the command line handed to subprocess.run
    runs,            \* how many times the external loader has run
    returncode,      \* result.returncode
    response         \* the HTTP response: [code, status]

rvars == <<heap, config, file_mapping, updated_config, iter, idx, rpc, rerr, before>>
cvars == <<schema_json, schema, groovy_lines, cidx, cpc, cerr, script>>
lvars == <<request, lpc, fs, schema_path, schema_groovy, cmd, runs, returncode, response>>
vars  == <<rvars, cvars, lvars>>

-----------------------------------------------------------------------------
(* Python str values as character sequences                                *)

K_vertices == <<"v","e","r","t","i","c","e","s">>
K_edges    == <<"e","d","g","e","s">>
K_input    == <<"i","n","p","u","t">>
K_type     == <<"t","y","p","e">>
K_path     == <<"p","a","t","h">>
K_label    == <<"l","a","b","e","l">>
K_format   == <<"f","o","r","m","a","t">>
S_file     == <<"f","i","l","e">>
S_jdbc     == <<"j","d","b","c">>
S_csv      == <<"C","S","V">>

-----------------------------------------------------------------------------
(* JSON documents (the text json.loads reads and json.dumps writes)        *)

JStr(s)  == [k |-> "string", v |-> s]
JNum(n)  == [k |-> "number", v |-> <<n>>]
JNull    == [k |-> "null",   v |-> <<>>]
JArr(xs) == [k |-> "array",  v |-> xs]
JObj(ms) == [k |-> "object", v |-> ms]
M(key, val) == [key |-> key, val |-> val]

(* Python values: immutable scalars, or a reference to a heap node         *)
PStr(s) == [k |-> "str",  v |-> s]
PInt(n) == [k |-> "int",  v |-> <<n>>]
PNone   == [k |-> "none", v |-> <<>>]
PRef(a) == [k |-> "ref",  v |-> <<a>>]

IsRef(val) == val.k = "ref"
Node(h, val) == h[val.v[1]]
IsDict(h, val) == IsRef(val) /\ Node(h, val).k = "dict"
IsList(h, val) == IsRef(val) /\ Node(h, val).k = "list"

RECURSIVE Loads(_, _), LoadsAll(_, _)
\* json.loads: every array and object becomes a fresh list / dict node.
\* Returns [heap, val].
Loads(j, h) ==
    CASE j.k = "string" -> [heap |-> h, val |-> PStr(j.v)]
      [] j.k = "number" -> [heap |-> h, val |-> PInt(j.v[1])]
      [] j.k = "null"   -> [heap |-> h, val |-> PNone]
      [] j.k = "array"  ->
            LET r == LoadsAll(j.v, h)
            IN  [heap |-> Append(r.heap, [k |-> "list", v |-> r.vals]),
                 val  |-> PRef(Len(r.heap) + 1)]
      [] j.k = "object" ->
            LET r == LoadsAll([i \in 1..Len(j.v) |-> j.v[i].val], h)
                ms == [i \in 1..Len(j.v) |-> M(j.v[i].key, r.vals[i])]
            IN  [heap |-> Append(r.heap, [k |-> "dict", v |-> ms]),
                 val  |-> PRef(Len(r.heap) + 1)]

LoadsAll(js, h) ==
    IF Len(js) = 0 THEN [heap |-> h, vals |-> <<>>]
    ELSE LET first == Loads(js[1], h)
             rest  == LoadsAll(SubSeq(js, 2, Len(js)), first.heap)
         IN  [heap |-> rest.heap, vals |-> <<first.val>> \o rest.vals]

RECURSIVE Dumps(_, _)
\* json.dumps: the document of a Python value (identity is lost).
Dumps(h, val) ==
    CASE val.k = "str"  -> JStr(val.v)
      [] val.k = "int"  -> JNum(val.v[1])
      [] val.k = "none" -> JNull
      [] val.k = "ref"  ->
            LET n == Node(h, val)
            IN  IF n.k = "list"
                THEN JArr([i \in 1..Len(n.v) |-> Dumps(h, n.v[i])])
                ELSE JObj([i \in 1..Len(n.v) |->
                              M(n.v[i].key, Dumps(h, n.v[i].val))])

\* a copy that is only another name for the same object
DeepCopyAlias(h, val) == [heap |-> h, val |-> val]

\* line 285: updated_config = json.loads(json.dumps(config))
DeepCopy(h, val) == Loads(Dumps(h, val), h)

-----------------------------------------------------------------------------
(* Python operations used by update_paths.  Each returns a record whose    *)
(* field err names the exception raised ("" when none).                    *)

IsSubstring(sub, s) ==
    \E i \in 0..(Len(s) - Len(sub)) : SubSeq(s, i + 1, i + Len(sub)) = sub

\* `key in container` (lines 290, 303, 306)
Contains(h, c, key) ==
    CASE IsDict(h, c) ->
            [err |-> "", val |-> \E i \in 1..Len(Node(h, c).v) : Node(h, c).v[i].key = key]
      [] IsList(h, c) ->
            [err |-> "", val |-> \E i \in 1..Len(Node(h, c).v) : Node(h, c).v[i] = PStr(key)]
      [] c.k = "str" -> [err |-> "", val |-> IsSubstring(key, c.v)]
      [] OTHER -> [err |-> "TypeError", val |-> FALSE]

\* `container[key]` with a str key (lines 290, 292, 304, 307)
GetItem(h, c, key) ==
    CASE IsDict(h, c) ->
            LET ms == Node(h, c).v
                at == {i \in 1..Len(ms) : ms[i].key = key}
            IN  IF at = {} THEN [err |-> "KeyError", val |-> PNone]
                ELSE [err |-> "", val |-> ms[CHOOSE i \in at : TRUE].val]
      [] OTHER -> [err |-> "TypeError", val |-> PNone]

\* `input.get("type")` (line 290): only a dict has .get; a missing key gives None
DictGet(h, c, key) ==
    IF IsDict(h, c)
    THEN LET r == GetItem(h, c, key)
         IN  [err |-> "", val |-> IF r.err = "" THEN r.val ELSE PNone]
    ELSE [err |-> "AttributeError", val |-> PNone]

\* `container[key] = val` on a dict (lines 297, 304, 307): in place
SetItem(h, c, key, val) ==
    LET a  == c.v[1]
        ms == h[a].v
        at == {i \in 1..Len(ms) : ms[i].key = key}
        ns == IF at = {} THEN Append(ms, M(key, val))
              ELSE [i \in 1..Len(ms) |-> IF i \in at THEN M(key, val) ELSE ms[i]]
    IN  [h EXCEPT ![a] = [k |-> "dict", v |-> ns]]

\* `for item in items` (line 289): what the loop walks
IterOf(h, c) ==
    CASE IsList(h, c) -> [err |-> "", val |-> Node(h, c).v]
      [] IsDict(h, c) ->
            [err |-> "", val |-> [i \in 1..Len(Node(h, c).v) |-> PStr(Node(h, c).v[i].key)]]
      [] c.k = "str" -> [err |-> "", val |-> [i \in 1..Len(c.v) |-> PStr(<<c.v[i]>>)]]
      [] OTHER -> [err |-> "TypeError", val |-> <<>>]

\* the path taken whole
BasenameWhole(p) == p

\* os.path.basename (line 293): what follows the last "/"
Basename(p) ==
    LET slashes == {i \in 1..Len(p) : p[i] = "/"}
        last == IF slashes = {} THEN 0
                ELSE CHOOSE i \in slashes : \A j \in slashes : j <= i
    IN  SubSeq(p, last + 1, Len(p))

\* line 290: item["input"].get("type") == "file"
IsFileType(t) == t = PStr(S_file)

\* line 296: filename in file_mapping
InMapping(fm, filename) == filename \in DOMAIN fm

\* The body of the loop of update_paths (lines 290-297) for one item.
\* Returns [err, heap].
UpdateItem(h, item, fm) ==
    LET has == Contains(h, item, K_input)
    IN  IF has.err # "" THEN [err |-> has.err, heap |-> h]
        ELSE IF ~has.val THEN [err |-> "", heap |-> h]
        ELSE
        LET inp == GetItem(h, item, K_input)
        IN  IF inp.err # "" THEN [err |-> inp.err, heap |-> h]
            ELSE
            LET t == DictGet(h, inp.val, K_type)
            IN  IF t.err # "" THEN [err |-> t.err, heap |-> h]
                ELSE IF ~IsFileType(t.val) THEN [err |-> "", heap |-> h]
                ELSE
                LET original_path == GetItem(h, inp.val, K_path)
                IN  IF original_path.err # "" THEN [err |-> original_path.err, heap |-> h]
                    ELSE IF original_path.val.k # "str" THEN [err |-> "TypeError", heap |-> h]
                    ELSE
                    LET filename == Basename(original_path.val.v)
                    IN  IF InMapping(fm, filename)
                        THEN [err |-> "",
                              heap |-> SetItem(h, inp.val, K_path, PStr(fm[filename]))]
                        ELSE [err |-> "", heap |-> h]

-----------------------------------------------------------------------------
(* update_file_paths_in_config, step by step                               *)

PhaseKey == [vertices |-> K_vertices, edges |-> K_edges]
NextPhase == [vertices |-> "edges", edges |-> "returned"]

Raise(e) ==
    /\ rpc' = "raised"
    /\ rerr' = e

\* line 285
R_Copy ==
    /\ rpc = "copy"
    /\ LET r == DeepCopy(heap, config)
       IN  /\ heap' = r.heap
           /\ updated_config' = r.val
    /\ rpc' = "vertices"
    /\ UNCHANGED <<config, file_mapping, iter, idx, rerr, before>>
    /\ UNCHANGED <<cvars, lvars>>

\* lines 303 / 306: `if key in updated_config`, then the call of update_paths
\* up to the start of its loop
R_Enter ==
    /\ rpc \in {"vertices", "edges"}
    /\ idx = 0
    /\ LET has == Contains(heap, updated_config, PhaseKey[rpc])
           got == GetItem(heap, updated_config, PhaseKey[rpc])
           its == IterOf(heap, got.val)
       IN  IF has.err # "" THEN Raise(has.err) /\ UNCHANGED <<iter, idx>>
           ELSE IF ~has.val
                THEN rpc' = NextPhase[rpc] /\ UNCHANGED <<iter, idx, rerr>>
           ELSE IF got.err # "" THEN Raise(got.err) /\ UNCHANGED <<iter, idx>>
           ELSE IF its.err # "" THEN Raise(its.err) /\ UNCHANGED <<iter, idx>>
           ELSE /\ iter' = its.val
                /\ idx' = 1
                /\ UNCHANGED <<rpc, rerr>>
    /\ UNCHANGED <<heap, config, file_mapping, updated_config, before>>
    /\ UNCHANGED <<cvars, lvars>>

\* lines 289-297: one turn of the loop
R_Item ==
    /\ rpc \in {"vertices", "edges"}
    /\ idx \in 1..Len(iter)
    /\ LET r == UpdateItem(heap, iter[idx], file_mapping)
       IN  IF r.err # ""
           THEN Raise(r.err) /\ UNCHANGED <<heap, idx>>
           ELSE /\ heap' = r.heap
                /\ idx' = idx + 1
                /\ UNCHANGED <<rpc, rerr>>
    /\ UNCHANGED <<config, file_mapping, updated_config, iter, before>>
    /\ UNCHANGED <<cvars, lvars>>

\* lines 300, 304 / 307: `return items` and the assignment of the result
R_Leave ==
    /\ rpc \in {"vertices", "edges"}
    /\ idx = Len(iter) + 1
    /\ heap' = SetItem(heap, updated_config, PhaseKey[rpc],
                       GetItem(heap, updated_config, PhaseKey[rpc]).val)
    /\ rpc' = NextPhase[rpc]
    /\ iter' = <<>>
    /\ idx' = 0
    /\ UNCHANGED <<config, file_mapping, updated_config, rerr, before>>
    /\ UNCHANGED <<cvars, lvars>>

ResolveNext ==
    \/ R_Copy
    \/ R_Enter
    \/ R_Item
    \/ R_Leave

-----------------------------------------------------------------------------
(* The configurations and mappings the resolver is called with             *)

MaxItems == 2

P_da == <<"/","d","/","a">>
P_b  == <<"b">>
P_d  == <<"d","/">>
P_dc == <<"/","d","/","c">>

Paths == {P_da, P_b, P_d, P_dc}

\* os.path.join(tmpdir, name) (lines 207, 218, 226)
TmpDir == <<"/","t","/">>
JoinTmp(name) == TmpDir \o name

\* lines 203-210: file_mapping maps each uploaded filename to its stored path
FileMapping(names) == [f \in names |-> JoinTmp(f)]

Mappings == {FileMapping({<<"a">>, <<"b">>}), FileMapping({<<"a">>})}

Labelled(ms) == JObj(<<M(K_label, JStr(<<"p">>))>> \o ms)
InputOf(t, p) ==
    JObj(<<M(K_type, JStr(t)), M(K_path, p), M(K_format, JStr(S_csv))>>)

ObjectItems ==
    {Labelled(<<>>)}
    \cup {Labelled(<<M(K_input, InputOf(S_file, JStr(p)))>>) : p \in Paths}
    \cup {Labelled(<<M(K_input, InputOf(S_jdbc, JStr(P_da)))>>),
          Labelled(<<M(K_input, JObj(<<M(K_path, JStr(P_da))>>))>>),
          Labelled(<<M(K_input, JObj(<<M(K_type, JStr(S_file))>>))>>),
          Labelled(<<M(K_input, JStr(S_csv))>>)}

OtherItems == {JStr(<<"x">>)}

Items == ObjectItems \cup OtherItems

\* what `vertices` / `edges` may be: absent (<<>>), or present with a value
Absent == <<>>
Present(j) == <<j>>

\* the sections of n items; those that are no list count as of no item
Sections(n) ==
    {Present(JArr(l)) : l \in [1..n -> Items]}
    \cup (IF n = 0 THEN {Absent, Present(JNum(3)), Present(JStr(<<"x">>))} ELSE {})

ConfigDoc(v, e) ==
    JObj(<<M(<<"n">>, JStr(<<"j">>))>>
         \o (IF v = Absent THEN <<>> ELSE <<M(K_vertices, v[1])>>)
         \o (IF e = Absent THEN <<>> ELSE <<M(K_edges, e[1])>>))

\* configurations that are no object
OtherConfigDocs == {JNum(1), JArr(<<JStr(K_vertices)>>), JStr(K_edges)}

\* the call: config is what json.loads gave the caller (line 198)
CallResolve(doc, fm) ==
    LET r == Loads(doc, <<>>)
    IN  /\ heap = r.heap
        /\ config = r.val
        /\ file_mapping = fm
        /\ before = doc

ResolveInit ==
    /\ \/ \E n \in 0..MaxItems : \E m \in 0..(MaxItems - n) :
             \E v \in Sections(n), e \in Sections(m), fm \in Mappings :
                CallResolve(ConfigDoc(v, e), fm)
       \/ \E doc \in OtherConfigDocs, fm \in Mappings : CallResolve(doc, fm)
    /\ updated_config = PNone
    /\ iter = <<>>
    /\ idx = 0
    /\ rpc = "copy"
    /\ rerr = ""


-----------------------------------------------------------------------------
(* Claims about update_file_paths_in_config                                *)

RECURSIVE Reach(_, _)
\* the heap nodes a value reaches
Reach(h, val) ==
    IF ~IsRef(val) THEN {}
    ELSE LET n == Node(h, val)
             kids == IF n.k = "list" THEN {n.v[i] : i \in 1..Len(n.v)}
                     ELSE {n.v[i].val : i \in 1..Len(n.v)}
         IN  {val.v[1]} \cup UNION {Reach(h, c) : c \in kids}

\* the members of a JSON object with a given key
JMembers(obj, key) == {i \in 1..Len(obj.v) : obj.v[i].key = key}
JHas(obj, key) == obj.k = "object" /\ JMembers(obj, key) # {}
JGet(obj, key) == obj.v[CHOOSE i \in JMembers(obj, key) : TRUE].val

\* b is the base name of p: the final component, after the last separator
IsBaseNameOf(b, p) ==
    /\ \A i \in 1..Len(b) : b[i] # "/"
    /\ \E n \in 0..Len(p) :
          /\ SubSeq(p, n + 1, Len(p)) = b
          /\ n > 0 => p[n] = "/"

\* an item the resolver is to rewrite: it has an `input` object of type
\* "file" whose path's base name is a key of the mapping
ToRewrite(item, fm) ==
    /\ JHas(item, K_input)
    /\ JHas(JGet(item, K_input), K_type)
    /\ JGet(JGet(item, K_input), K_type) = JStr(S_file)
    /\ JHas(JGet(item, K_input), K_path)
    /\ JGet(JGet(item, K_input), K_path).k = "string"
    /\ \E f \in DOMAIN fm : IsBaseNameOf(f, JGet(JGet(item, K_input), K_path).v)

Location(item, fm) ==
    fm[CHOOSE f \in DOMAIN fm : IsBaseNameOf(f, JGet(JGet(item, K_input), K_path).v)]

ReplaceMember(obj, key, val) ==
    JObj([i \in 1..Len(obj.v) |-> IF obj.v[i].key = key THEN M(key, val) ELSE obj.v[i]])

ExpectedItem(item, fm) ==
    IF ToRewrite(item, fm)
    THEN ReplaceMember(item, K_input,
            ReplaceMember(JGet(item, K_input), K_path, JStr(Location(item, fm))))
    ELSE item

ExpectedSection(sec, fm) ==
    IF sec.k = "array"
    THEN JArr([i \in 1..Len(sec.v) |-> ExpectedItem(sec.v[i], fm)])
    ELSE sec

ExpectedConfig(doc, fm) ==
    IF doc.k = "object"
    THEN JObj([i \in 1..Len(doc.v) |->
                 IF doc.v[i].key \in {K_vertices, K_edges}
                 THEN M(doc.v[i].key, ExpectedSection(doc.v[i].val, fm))
                 ELSE doc.v[i]])
    ELSE doc

\* C1: whenever update_file_paths_in_config returns, the returned tree is the
\* input with input.path replaced by the mapped location in exactly the items
\* of vertices and edges that have a file-typed input whose path's base name
\* is a key of the mapping; everything else (other items, other fields, order
\* and number of items, other keys) is as in the input.
C1_RewritesExactlyMappedFilePaths ==
    rpc = "returned" =>
        Dumps(heap, updated_config) = ExpectedConfig(before, file_mapping)

\* a call that returned and rewrote a path while leaving another item alone
C1_Witness ==
    /\ rpc = "returned"
    /\ Dumps(heap, updated_config) # before
    /\ \E i \in JMembers(before, K_vertices) :
          /\ before.v[i].val.k = "array"
          /\ \E n \in 1..Len(before.v[i].val.v) :
                ~ToRewrite(before.v[i].val.v[n], file_mapping)

\* C2: the caller's configuration is never mutated: at every point of the
\* call and after it the original is deep-equal to its value at the call, and
\* once the copy is made the tree being built shares no node with it.
C2_OriginalNeverMutated ==
    /\ Dumps(heap, config) = before
    /\ rpc # "copy" => Reach(heap, config) \cap Reach(heap, updated_config) = {}

\* a call that returned a tree with a rewritten path
C2_Witness ==
    /\ rpc = "returned"
    /\ Reach(heap, config) # {}
    /\ Dumps(heap, updated_config) # Dumps(heap, config)

\* vertices / edges are each absent or a sequence of objects
IsSequenceOfObjects(doc, key) ==
    JHas(doc, key) =>
        /\ JGet(doc, key).k = "array"
        /\ \A i \in 1..Len(JGet(doc, key).v) : JGet(doc, key).v[i].k = "object"

WellShaped(doc) ==
    /\ doc.k = "object"
    /\ IsSequenceOfObjects(doc, K_vertices)
    /\ IsSequenceOfObjects(doc, K_edges)

\* C3: the resolver fails only if vertices or edges exist but are not
\* sequences of objects: on a configuration in which each is absent or a
\* sequence of objects it raises no error.
C3_FailsOnlyOnBadShape ==
    rpc = "raised" => ~WellShaped(before)

-----------------------------------------------------------------------------
(* json_to_groovy.  A line is a sequence of clauses; a clause is            *)
(* name(arguments), each argument quoted ("x") or literal (x).  The clause  *)
(* of the type accessor carries the capitalized tag after `as`.  The        *)
(* returned string is the sequence of clauses of all lines with a newline   *)
(* between two lines.                                                       *)

Q(text)   == [quoted |-> TRUE,  text |-> text]
Lit(text) == [quoted |-> FALSE, text |-> text]
Call(fn, args) == [fn |-> fn, tag |-> <<>>, args |-> args]
As(tag)   == [fn |-> "as", tag |-> tag, args |-> <<>>]
Close     == Call("ifNotExist().create();", <<>>)   \* lines 102, 145, 174
NL        == Call("\n", <<>>)

\* Optional[...] fields: None is <<>>, a value x is <<x>>
None == <<>>
Some(x) == <<x>>

LowerCase == <<"e", "i", "n", "t", "x">>
UpperCase == <<"E", "I", "N", "T", "X">>
ToUpper(c) == IF \E i \in 1..Len(LowerCase) : LowerCase[i] = c
              THEN UpperCase[CHOOSE i \in 1..Len(LowerCase) : LowerCase[i] = c] ELSE c
ToLower(c) == IF \E i \in 1..Len(UpperCase) : UpperCase[i] = c
              THEN LowerCase[CHOOSE i \in 1..Len(UpperCase) : UpperCase[i] = c] ELSE c

\* str.capitalize (line 89): first character upper case, the rest lower case
Capitalize(s) == [i \in 1..Len(s) |-> IF i = 1 THEN ToUpper(s[i]) ELSE ToLower(s[i])]

\* str(opt_value) of a value that is not a str (lines 100, 143, 172)
Digits == <<"0", "1", "2", "3", "4", "5", "6", "7", "8", "9">>
PyStr(value) ==
    CASE value.k = "int"  -> Digits[value.v + 1]
      [] value.k = "bool" -> IF value.v THEN "True" ELSE "False"

\* pydantic: the fields a model requires and those that default to None
Required == [PropertyKey |-> {"name", "type"},
             VertexLabel |-> {"name", "properties"},
             EdgeLabel   |-> {"name", "source_label", "target_label"}]
Defaulted == [PropertyKey |-> {"cardinality", "options"},
              VertexLabel |-> {"primary_keys", "nullable_keys", "id_strategy", "options"},
              EdgeLabel   |-> {"properties", "sort_keys", "options"}]

\* lines 31-55: a model built from a dict; missing optional fields are None
Construct(class, d) ==
    [f \in Required[class] \cup Defaulted[class] |->
        IF f \in Required[class] THEN d[f]
        ELSE IF f \in DOMAIN d THEN Some(d[f]) ELSE None]

Constructible(class, d) == Required[class] \subseteq DOMAIN d

\* line 81: SchemaDefinition(**schema_json); returns [err, schema]
Validate(d) ==
    IF /\ {"property_keys", "vertex_labels", "edge_labels"} \subseteq DOMAIN d
       /\ \A i \in 1..Len(d.property_keys) : Constructible("PropertyKey", d.property_keys[i])
       /\ \A i \in 1..Len(d.vertex_labels) : Constructible("VertexLabel", d.vertex_labels[i])
       /\ \A i \in 1..Len(d.edge_labels) : Constructible("EdgeLabel", d.edge_labels[i])
    THEN [err |-> "",
          schema |->
            [property_keys |-> [i \in 1..Len(d.property_keys) |->
                                   Construct("PropertyKey", d.property_keys[i])],
             vertex_labels |-> [i \in 1..Len(d.vertex_labels) |->
                                   Construct("VertexLabel", d.vertex_labels[i])],
             edge_labels   |-> [i \in 1..Len(d.edge_labels) |->
                                   Construct("EdgeLabel", d.edge_labels[i])]]]
    ELSE [err |-> "ValidationError", schema |-> None]

\* truth value of an Optional[str], Optional[List], Optional[Dict] or List
TruthyStr(o) == o # None /\ o[1] # ""
TruthySeq(o) == o # None /\ Len(o[1]) > 0

\* lines 95-100, 138-143, 167-172
OptionClause(o) ==
    IF o.value.k = "str" THEN Call(o.name, <<Q(o.value.v)>>)
    ELSE Call(o.name, <<Lit(PyStr(o.value))>>)

OptionClauses(options) ==
    IF TruthySeq(options)
    THEN [i \in 1..Len(options[1]) |-> OptionClause(options[1][i])]
    ELSE <<>>

\* ', '.join([f'"{x}"' for x in xs]) inside name(...): lines 124, 129, 134, 158, 163
ListClause(fn, xs) == Call(fn, [i \in 1..Len(xs) |-> Q(xs[i])])

\* lines 91-92
CardinalityClauses(prop) ==
    IF TruthyStr(prop.cardinality)
    THEN <<Call("cardinality", <<Q(prop.cardinality[1])>>)>>
    ELSE <<>>

\* the cardinality clause put before the type accessor
PropertyKeyLineCardinalityFirst(prop) ==
    <<Call("schema.propertyKey", <<Q(prop.name)>>)>>
    \o CardinalityClauses(prop)
    \o <<As(Capitalize(prop.type))>>
    \o OptionClauses(prop.options)
    \o <<Close>>

\* lines 89-102: the line of one property key
PropertyKeyLine(prop) ==
    <<Call("schema.propertyKey", <<Q(prop.name)>>), As(Capitalize(prop.type))>>
    \o CardinalityClauses(prop)
    \o OptionClauses(prop.options)
    \o <<Close>>

\* the primary_key strategy dropped when primary keys are declared
IdStrategyClausesSkipRedundant(vertex) ==
    IF TruthyStr(vertex.id_strategy)
    THEN CASE vertex.id_strategy[1] = "primary_key" ->
                IF TruthySeq(vertex.primary_keys) THEN <<>>
                ELSE <<Call("useCustomizeStringId", <<>>)>>
           [] vertex.id_strategy[1] = "customize_number" -> <<Call("useCustomizeNumberId", <<>>)>>
           [] vertex.id_strategy[1] = "customize_string" -> <<Call("useCustomizeStringId", <<>>)>>
           [] vertex.id_strategy[1] = "automatic"        -> <<Call("useAutomaticId", <<>>)>>
           [] OTHER -> <<>>
    ELSE <<>>

\* lines 112-120
IdStrategyClauses(vertex) ==
    IF TruthyStr(vertex.id_strategy)
    THEN CASE vertex.id_strategy[1] = "primary_key"      -> <<Call("useCustomizeStringId", <<>>)>>
           [] vertex.id_strategy[1] = "customize_number" -> <<Call("useCustomizeNumberId", <<>>)>>
           [] vertex.id_strategy[1] = "customize_string" -> <<Call("useCustomizeStringId", <<>>)>>
           [] vertex.id_strategy[1] = "automatic"        -> <<Call("useAutomaticId", <<>>)>>
           [] OTHER -> <<>>
    ELSE <<>>

\* a list clause under `if xs:` for an Optional[List[str]]
OptionalListClauses(fn, o) ==
    IF TruthySeq(o) THEN <<ListClause(fn, o[1])>> ELSE <<>>

\* lines 109-145: the line of one vertex label
VertexLabelLine(vertex) ==
    <<Call("schema.vertexLabel", <<Q(vertex.name)>>)>>
    \o IdStrategyClauses(vertex)
    \o OptionalListClauses("properties", Some(vertex.properties))
    \o OptionalListClauses("primaryKeys", vertex.primary_keys)
    \o OptionalListClauses("nullableKeys", vertex.nullable_keys)
    \o OptionClauses(vertex.options)
    \o <<Close>>

\* the list clauses emitted whenever the lists are given, empty or not
EdgeLabelLineEmptyLists(edge) ==
    <<Call("schema.edgeLabel", <<Q(edge.name)>>),
      Call("sourceLabel", <<Q(edge.source_label)>>),
      Call("targetLabel", <<Q(edge.target_label)>>)>>
    \o (IF edge.properties # None THEN <<ListClause("properties", edge.properties[1])>>
        ELSE <<>>)
    \o (IF edge.sort_keys # None THEN <<ListClause("sortKeys", edge.sort_keys[1])>>
        ELSE <<>>)
    \o OptionClauses(edge.options)
    \o <<Close>>

\* lines 152-174: the line of one edge label
EdgeLabelLine(edge) ==
    <<Call("schema.edgeLabel", <<Q(edge.name)>>),
      Call("sourceLabel", <<Q(edge.source_label)>>),
      Call("targetLabel", <<Q(edge.target_label)>>)>>
    \o OptionalListClauses("properties", edge.properties)
    \o OptionalListClauses("sortKeys", edge.sort_keys)
    \o OptionClauses(edge.options)
    \o <<Close>>

RECURSIVE JoinTerminated(_)
\* every line ended by a newline, the last one too
JoinTerminated(lines) ==
    IF Len(lines) = 0 THEN <<>>
    ELSE lines[1] \o <<NL>> \o JoinTerminated(SubSeq(lines, 2, Len(lines)))

RECURSIVE Join(_)
\* line 177: '\n'.join(groovy_lines)
Join(lines) ==
    IF Len(lines) = 0 THEN <<>>
    ELSE IF Len(lines) = 1 THEN lines[1]
    ELSE lines[1] \o <<NL>> \o Join(SubSeq(lines, 2, Len(lines)))

-----------------------------------------------------------------------------
(* json_to_groovy, step by step                                            *)

\* lines 80-88, up to the first loop: a dict is validated into a
\* SchemaDefinition; anything else is taken for one, and reading its
\* property_keys fails
G_Validate ==
    /\ cpc = "validate"
    /\ LET r == IF schema_json.k = "dict" THEN Validate(schema_json.v)
                ELSE [err |-> "AttributeError", schema |-> None]
       IN  IF r.err # ""
           THEN /\ cpc' = "raised"
                /\ cerr' = r.err
                /\ UNCHANGED <<schema, groovy_lines, cidx>>
           ELSE /\ schema' = r.schema
                /\ groovy_lines' = <<>>
                /\ cidx' = 1
                /\ cpc' = "property_keys"
                /\ UNCHANGED cerr
    /\ UNCHANGED <<schema_json, script>>
    /\ UNCHANGED <<rvars, lvars>>

\* lines 88-103: one turn of the loop over schema.property_keys
G_PropertyKey ==
    /\ cpc = "property_keys"
    /\ cidx <= Len(schema.property_keys)
    /\ groovy_lines' = Append(groovy_lines, PropertyKeyLine(schema.property_keys[cidx]))
    /\ cidx' = cidx + 1
    /\ UNCHANGED <<schema_json, schema, cpc, cerr, script>>
    /\ UNCHANGED <<rvars, lvars>>

\* line 105: the empty line after the property keys
G_AfterPropertyKeys ==
    /\ cpc = "property_keys"
    /\ cidx > Len(schema.property_keys)
    /\ groovy_lines' = Append(groovy_lines, <<>>)
    /\ cidx' = 1
    /\ cpc' = "vertex_labels"
    /\ UNCHANGED <<schema_json, schema, cerr, script>>
    /\ UNCHANGED <<rvars, lvars>>

\* lines 108-146: one turn of the loop over schema.vertex_labels
G_VertexLabel ==
    /\ cpc = "vertex_labels"
    /\ cidx <= Len(schema.vertex_labels)
    /\ groovy_lines' = Append(groovy_lines, VertexLabelLine(schema.vertex_labels[cidx]))
    /\ cidx' = cidx + 1
    /\ UNCHANGED <<schema_json, schema, cpc, cerr, script>>
    /\ UNCHANGED <<rvars, lvars>>

\* line 148: the empty line after the vertex labels
G_AfterVertexLabels ==
    /\ cpc = "vertex_labels"
    /\ cidx > Len(schema.vertex_labels)
    /\ groovy_lines' = Append(groovy_lines, <<>>)
    /\ cidx' = 1
    /\ cpc' = "edge_labels"
    /\ UNCHANGED <<schema_json, schema, cerr, script>>
    /\ UNCHANGED <<rvars, lvars>>

\* lines 151-175: one turn of the loop over schema.edge_labels
G_EdgeLabel ==
    /\ cpc = "edge_labels"
    /\ cidx <= Len(schema.edge_labels)
    /\ groovy_lines' = Append(groovy_lines, EdgeLabelLine(schema.edge_labels[cidx]))
    /\ cidx' = cidx + 1
    /\ UNCHANGED <<schema_json, schema, cpc, cerr, script>>
    /\ UNCHANGED <<rvars, lvars>>

\* line 177
G_Return ==
    /\ cpc = "edge_labels"
    /\ cidx > Len(schema.edge_labels)
    /\ script' = Join(groovy_lines)
    /\ cpc' = "returned"
    /\ UNCHANGED <<schema_json, schema, groovy_lines, cidx, cerr>>
    /\ UNCHANGED <<rvars, lvars>>

CompileNext ==
    \/ G_Validate
    \/ G_PropertyKey
    \/ G_AfterPropertyKeys
    \/ G_VertexLabel
    \/ G_AfterVertexLabels
    \/ G_EdgeLabel
    \/ G_Return

-----------------------------------------------------------------------------
(* The schemas json_to_groovy is called with                                *)

MaxElements == 2

T_int  == <<"i", "n", "t">>
T_text == <<"t", "e", "x", "t">>
T_INT  == <<"I", "N", "T">>
T_nix  == <<"n", "i", "x">>

VStr(v)  == [k |-> "str",  v |-> v]
VInt(v)  == [k |-> "int",  v |-> v]
VBool(v) == [k |-> "bool", v |-> v]
Opt(name, value) == [name |-> name, value |-> value]

OptionDicts ==
    { <<>>,
      <<Opt("dateFormat", VStr("yyyy"))>>,
      <<Opt("ttl", VInt(5))>>,
      <<Opt("enableLabelIndex", VBool(FALSE)), Opt("userdata", VStr("u"))>> }

PropertyKeyInputs ==
    {[name |-> "age", type |-> T_int], [name |-> "name", type |-> T_text],
     [name |-> "id", type |-> T_INT], [name |-> "x", type |-> T_nix]}
    \cup {[name |-> "age", type |-> T_int, cardinality |-> c] :
             c \in {"single", "list", "set", "many", ""}}
    \cup {[name |-> "age", type |-> T_text, options |-> o] : o \in OptionDicts}
    \cup {[name |-> "tags", type |-> T_text, cardinality |-> "set",
           options |-> <<Opt("ttl", VInt(5))>>],
          [name |-> "age"], [type |-> T_int]}

VertexLabelInputs ==
    {[name |-> "software", properties |-> <<>>],
     [name |-> "person", properties |-> <<"name", "age">>]}
    \cup {[name |-> "person", properties |-> <<"name", "age">>, id_strategy |-> i] :
             i \in {"primary_key", "customize_number", "customize_string",
                    "automatic", "uuid", ""}}
    \cup {[name |-> "person", properties |-> <<"name", "age">>, id_strategy |-> i,
           primary_keys |-> <<"name">>] :
             i \in {"primary_key", "customize_number", "customize_string",
                    "automatic", "uuid", ""}}
    \cup {[name |-> "person", properties |-> <<"name", "age">>, primary_keys |-> pk] :
             pk \in {<<>>, <<"name">>, <<"name", "age">>}}
    \cup {[name |-> "person", properties |-> <<"name", "age">>,
           primary_keys |-> <<"name">>, nullable_keys |-> <<"age">>,
           options |-> <<Opt("enableLabelIndex", VBool(TRUE))>>],
          [name |-> "person", properties |-> <<"name", "age">>, nullable_keys |-> <<>>],
          [name |-> "person"]}

EdgeLabelInputs ==
    {[name |-> "created", source_label |-> "person", target_label |-> "software"],
     [name |-> "knows", source_label |-> "person", target_label |-> "person",
      properties |-> <<>>, sort_keys |-> <<>>],
     [name |-> "knows", source_label |-> "person", target_label |-> "person",
      properties |-> <<"date", "weight">>],
     [name |-> "knows", source_label |-> "person", target_label |-> "person",
      sort_keys |-> <<"date">>],
     [name |-> "knows", source_label |-> "person", target_label |-> "person",
      properties |-> <<"date", "weight">>, sort_keys |-> <<"date">>,
      options |-> <<Opt("frequency", VStr("multiple")), Opt("ttl", VInt(5))>>],
     [name |-> "knows", target_label |-> "person"]}

DictInput(d) == [k |-> "dict", v |-> d]
ListInput == [k |-> "list", v |-> <<>>]

\* schemas that are no dict, or lack a list
OtherSchemaInputs ==
    {DictInput([property_keys |-> <<>>, vertex_labels |-> <<>>]),
     DictInput([vertex_labels |-> <<>>, edge_labels |-> <<>>]),
     ListInput}

CompileInit ==
    /\ \/ \E np \in 0..MaxElements : \E nv \in 0..(MaxElements - np) :
          \E ne \in 0..(MaxElements - np - nv) :
             \E p \in [1..np -> PropertyKeyInputs], v \in [1..nv -> VertexLabelInputs],
                e \in [1..ne -> EdgeLabelInputs] :
                schema_json =
                    DictInput([property_keys |-> p, vertex_labels |-> v, edge_labels |-> e])
       \/ schema_json \in OtherSchemaInputs
    /\ schema = None
    /\ groovy_lines = <<>>
    /\ cidx = 0
    /\ cpc = "validate"
    /\ cerr = ""
    /\ script = <<>>

\* the other function is not running
ResolveIdle ==
    /\ heap = <<>>
    /\ config = PNone
    /\ file_mapping = <<>>
    /\ updated_config = PNone
    /\ iter = <<>>
    /\ idx = 0
    /\ rpc = "idle"
    /\ rerr = ""
    /\ before = JNull

CompileIdle ==
    /\ schema_json = None
    /\ schema = None
    /\ groovy_lines = <<>>
    /\ cidx = 0
    /\ cpc = "idle"
    /\ cerr = ""
    /\ script = <<>>

-----------------------------------------------------------------------------
(* Claims about json_to_groovy                                             *)

RECURSIVE LinesOf(_)
\* the lines of a string: what stands between its newlines
LinesOf(text) ==
    LET nls == {i \in 1..Len(text) : text[i] = NL}
    IN  IF nls = {} THEN <<text>>
        ELSE LET n == CHOOSE i \in nls : \A j \in nls : i <= j
             IN  <<SubSeq(text, 1, n - 1)>> \o LinesOf(SubSeq(text, n + 1, Len(text)))

Has(d, f) == f \in DOMAIN d

\* the elements of the schema as given
PKs == schema_json.v.property_keys
VLs == schema_json.v.vertex_labels
ELs == schema_json.v.edge_labels

\* the line of the script that stands for an element
PKLine(i) == LinesOf(script)[i]
VLLine(i) == LinesOf(script)[Len(PKs) + 1 + i]
ELLine(i) == LinesOf(script)[Len(PKs) + Len(VLs) + 2 + i]

\* C4: the lines of the returned script are one statement per property key
\* in declaration order, an empty line, one statement per vertex label in
\* declaration order, an empty line, one statement per edge label in
\* declaration order and nothing more; every statement ends with
\* .ifNotExist().create();
C4_LineLayout ==
    cpc = "returned" =>
        LET ls == LinesOf(script)
        IN  /\ Len(ls) = Len(PKs) + Len(VLs) + Len(ELs) + 2
            /\ \A i \in 1..Len(PKs) :
                  PKLine(i)[1] = Call("schema.propertyKey", <<Q(PKs[i].name)>>)
            /\ ls[Len(PKs) + 1] = <<>>
            /\ \A i \in 1..Len(VLs) :
                  VLLine(i)[1] = Call("schema.vertexLabel", <<Q(VLs[i].name)>>)
            /\ ls[Len(PKs) + Len(VLs) + 2] = <<>>
            /\ \A i \in 1..Len(ELs) :
                  ELLine(i)[1] = Call("schema.edgeLabel", <<Q(ELs[i].name)>>)
            /\ \A i \in 1..Len(ls) : ls[i] # <<>> => ls[i][Len(ls[i])] = Close
            /\ Len(PKs) + Len(VLs) + Len(ELs) = 0 => script = <<NL>>

\* a script of two statements of one group, of different names
C4_Witness ==
    /\ cpc = "returned"
    /\ Len(PKs) = 2
    /\ PKs[1].name # PKs[2].name
    /\ Len(LinesOf(script)) = 4

\* one clause per extension option, in mapping order: a string value quoted,
\* any other value unquoted, as Python writes it
ExpectedOptions(d) ==
    IF Has(d, "options")
    THEN [i \in 1..Len(d.options) |->
            Call(d.options[i].name,
                 <<IF d.options[i].value.k = "str" THEN Q(d.options[i].value.v)
                   ELSE Lit(PyStr(d.options[i].value))>>)]
    ELSE <<>>

\* a list clause iff the list is present and not empty
ExpectedList(d, f, fn) ==
    IF Has(d, f) /\ d[f] # <<>>
    THEN <<Call(fn, [i \in 1..Len(d[f]) |-> Q(d[f][i])])>>
    ELSE <<>>

\* the fixed lookup of ID strategies
IdLookup ==
    [primary_key      |-> Call("useCustomizeStringId", <<>>),
     customize_string |-> Call("useCustomizeStringId", <<>>),
     customize_number |-> Call("useCustomizeNumberId", <<>>),
     automatic        |-> Call("useAutomaticId", <<>>)]

ExpectedVertexLabel(d) ==
    <<Call("schema.vertexLabel", <<Q(d.name)>>)>>
    \o (IF Has(d, "id_strategy") THEN <<IdLookup[d.id_strategy]>> ELSE <<>>)
    \o ExpectedList(d, "properties", "properties")
    \o ExpectedList(d, "primary_keys", "primaryKeys")
    \o ExpectedList(d, "nullable_keys", "nullableKeys")
    \o ExpectedOptions(d)
    \o <<Close>>

\* C5: the statement of every vertex label (with an ID strategy of the
\* enumeration, or none) is vertexLabel(name), the clause of its ID strategy
\* by the fixed lookup whether or not primary keys are declared, properties /
\* primaryKeys / nullableKeys clauses iff those lists are non-empty, one
\* clause per option, and the close suffix; list elements quoted, in order.
C5_VertexLabelStatement ==
    cpc = "returned" =>
        \A i \in 1..Len(VLs) :
            (Has(VLs[i], "id_strategy") => VLs[i].id_strategy \in DOMAIN IdLookup)
                => VLLine(i) = ExpectedVertexLabel(VLs[i])

\* a vertex label with the primary_key strategy and declared primary keys
C5_Witness ==
    /\ cpc = "returned"
    /\ \E i \in 1..Len(VLs) :
          /\ Has(VLs[i], "id_strategy") /\ VLs[i].id_strategy = "primary_key"
          /\ Has(VLs[i], "primary_keys") /\ VLs[i].primary_keys # <<>>

\* t capitalized: its first letter in upper case, the others in lower case
Capitalized(t) ==
    [i \in 1..Len(t) |->
        IF i = 1
        THEN (IF \E n \in 1..Len(LowerCase) : LowerCase[n] = t[i]
              THEN UpperCase[CHOOSE n \in 1..Len(LowerCase) : LowerCase[n] = t[i]]
              ELSE t[i])
        ELSE (IF \E n \in 1..Len(UpperCase) : UpperCase[n] = t[i]
              THEN LowerCase[CHOOSE n \in 1..Len(UpperCase) : UpperCase[n] = t[i]]
              ELSE t[i])]

Cardinalities == {"single", "list", "set"}

ExpectedPropertyKey(d) ==
    <<Call("schema.propertyKey", <<Q(d.name)>>), As(Capitalized(d.type))>>
    \o (IF Has(d, "cardinality") THEN <<Call("cardinality", <<Q(d.cardinality)>>)>>
        ELSE <<>>)
    \o ExpectedOptions(d)
    \o <<Close>>

\* C6: the statement of every property key (with a cardinality of the
\* enumeration, or none) is propertyKey(name), the accessor `as` + the
\* capitalized type tag, a cardinality clause iff a cardinality is present,
\* one clause per option in mapping order (a string value quoted, another
\* value unquoted), and the close suffix.
C6_PropertyKeyStatement ==
    cpc = "returned" =>
        \A i \in 1..Len(PKs) :
            (Has(PKs[i], "cardinality") => PKs[i].cardinality \in Cardinalities)
                => PKLine(i) = ExpectedPropertyKey(PKs[i])

\* a property key with a cardinality and an option, and one with neither
C6_Witness ==
    /\ cpc = "returned"
    /\ \E i \in 1..Len(PKs) :
          /\ Has(PKs[i], "cardinality") /\ PKs[i].cardinality \in Cardinalities
          /\ Has(PKs[i], "options") /\ PKs[i].options # <<>>
    /\ \E i \in 1..Len(PKs) : ~Has(PKs[i], "cardinality")

ExpectedEdgeLabel(d) ==
    <<Call("schema.edgeLabel", <<Q(d.name)>>),
      Call("sourceLabel", <<Q(d.source_label)>>),
      Call("targetLabel", <<Q(d.target_label)>>)>>
    \o ExpectedList(d, "properties", "properties")
    \o ExpectedList(d, "sort_keys", "sortKeys")
    \o ExpectedOptions(d)
    \o <<Close>>

\* C7: the statement of every edge label is edgeLabel(name), sourceLabel,
\* targetLabel in that order, a properties clause iff properties is present
\* and non-empty, a sortKeys clause iff sort_keys is present and non-empty,
\* the option clauses and the close suffix.
C7_EdgeLabelStatement ==
    cpc = "returned" =>
        \A i \in 1..Len(ELs) : ELLine(i) = ExpectedEdgeLabel(ELs[i])

\* an edge label with neither list, and one with both
C7_Witness ==
    /\ cpc = "returned"
    /\ \E i \in 1..Len(ELs) :
          /\ ~Has(ELs[i], "properties") /\ ~Has(ELs[i], "sort_keys")
          /\ Len(ELLine(i)) = 4
    /\ \E i \in 1..Len(ELs) :
          /\ Has(ELs[i], "properties") /\ ELs[i].properties # <<>>
          /\ Has(ELs[i], "sort_keys") /\ ELs[i].sort_keys # <<>>

\* the enumerations of the schema's tags
TypeTags == {T_int, T_text}
IdStrategies == {"primary_key", "automatic", "customize_number", "customize_string"}

\* a tag is given when the field is present and not the empty string
Given(d, f) == Has(d, f) /\ d[f] # ""

\* a schema whose elements have their mandatory fields and tags of the
\* enumerations (a type tag in any letter case)
ValidSchema(sj) ==
    /\ sj.k = "dict"
    /\ {"property_keys", "vertex_labels", "edge_labels"} \subseteq DOMAIN sj.v
    /\ \A i \in 1..Len(sj.v.property_keys) :
          LET d == sj.v.property_keys[i]
          IN  /\ {"name", "type"} \subseteq DOMAIN d
              /\ \E t \in TypeTags : Capitalized(d.type) = Capitalized(t)
              /\ Given(d, "cardinality") => d.cardinality \in Cardinalities
    /\ \A i \in 1..Len(sj.v.vertex_labels) :
          LET d == sj.v.vertex_labels[i]
          IN  /\ {"name", "properties"} \subseteq DOMAIN d
              /\ Given(d, "id_strategy") => d.id_strategy \in IdStrategies
    /\ \A i \in 1..Len(sj.v.edge_labels) :
          {"name", "source_label", "target_label"} \subseteq DOMAIN sj.v.edge_labels[i]

\* C8: json_to_groovy returns a script only for a valid schema: an element
\* with a tag outside its enumeration or without a mandatory field makes the
\* call fail.
C8_AllOrNothing ==
    cpc = "returned" => ValidSchema(schema_json)


LoadIdle ==
    /\ request = None
    /\ lpc = "idle"
    /\ fs = <<>>
    /\ schema_path = None
    /\ schema_groovy = None
    /\ cmd = <<>>
    /\ runs = 0
    /\ returncode = 0
    /\ response = None

\* a call of update_file_paths_in_config on its own
InitResolve == ResolveInit /\ CompileIdle /\ LoadIdle
SpecResolve == InitResolve /\ [][ResolveNext]_vars

\* a call of json_to_groovy on its own (as convert_schema makes it, line 324)
InitCompile == CompileInit /\ ResolveIdle /\ LoadIdle
SpecCompile == InitCompile /\ [][CompileNext]_vars

-----------------------------------------------------------------------------
(* load_data (POST /api/load), step by step.  Writing a file and starting   *)
(* the loader can fail: the environment decides.                            *)

Malformed == [k |-> "malformed", v |-> <<>>]
NoField   == [k |-> "absent", v |-> <<>>]
EmptyText == [k |-> "empty", v |-> <<>>]
Text(doc) == [k |-> "text", v |-> doc]

\* `if schema_json:` (line 215): a missing field is None, an empty text is falsy
TruthyText(t) == t.k \notin {"absent", "empty"}

\* lines 267-270: the status code of the HTTPException an exception becomes
StatusOf(exc) == IF exc = "JSONDecodeError" THEN 400 ELSE 500

\* lines 218, 226: the names of the two generated files (job_id is a uuid)
SchemaFile == JoinTmp(<<"S">>)
ConfigFile == JoinTmp(<<"C">>)

\* the words of a command line: plain words, and paths
Word(w) == [k |-> "word", v |-> w]
PathWord(p) == [k |-> "path", v |-> p]

\* a command that names the schema file whether or not there is one
LoaderCommandAlwaysSchema(config_path, spath) ==
    <<Word("sh"), Word("HUGEGRAPH_LOADER_PATH"), Word("-g"), Word("HUGEGRAPH_GRAPH"),
      Word("-f"), PathWord(config_path),
      Word("-h"), Word("HUGEGRAPH_HOST"), Word("-p"), Word("HUGEGRAPH_PORT"),
      Word("-s"), PathWord(JoinTmp(<<"S">>))>>

\* lines 231-240
LoaderCommand(config_path, spath) ==
    <<Word("sh"), Word("HUGEGRAPH_LOADER_PATH"), Word("-g"), Word("HUGEGRAPH_GRAPH"),
      Word("-f"), PathWord(config_path),
      Word("-h"), Word("HUGEGRAPH_HOST"), Word("-p"), Word("HUGEGRAPH_PORT")>>
    \o (IF spath # None THEN <<Word("-s"), PathWord(spath[1])>> ELSE <<>>)

\* an exception leaves the `with` block (the directory is removed) and is
\* turned into an HTTPException
Fail(exc) ==
    /\ response' = Some([code |-> StatusOf(exc), status |-> exc])
    /\ fs' = <<>>
    /\ lpc' = "done"

\* open(path, "w") and write: the file holds the content
WriteFile(files, path, content) ==
    [p \in DOMAIN files \cup {path} |-> IF p = path THEN content ELSE files[p]]

\* line 198
L_ParseConfig ==
    /\ lpc = "parse_config"
    /\ IF request.config.k = "malformed"
       THEN /\ Fail("JSONDecodeError")
            /\ UNCHANGED <<heap, config>>
       ELSE /\ LET r == Loads(request.config.v, heap)
               IN  heap' = r.heap /\ config' = r.val
            /\ lpc' = "save_files"
            /\ UNCHANGED <<fs, response>>
    /\ UNCHANGED <<file_mapping, updated_config, iter, idx, rpc, rerr, before>>
    /\ UNCHANGED <<request, schema_path, schema_groovy, cmd, runs, returncode>>
    /\ UNCHANGED cvars

\* lines 201-210
L_SaveFiles ==
    /\ lpc = "save_files"
    /\ \E ok \in BOOLEAN :
          IF ok
          THEN /\ fs' = [p \in {JoinTmp(request.files[i]) : i \in 1..Len(request.files)}
                            |-> [k |-> "upload", v |-> <<>>]]
               /\ file_mapping' =
                     FileMapping({request.files[i] : i \in 1..Len(request.files)})
               /\ lpc' = "schema"
               /\ UNCHANGED response
          ELSE /\ Fail("OSError")
               /\ UNCHANGED file_mapping
    /\ UNCHANGED <<heap, config, updated_config, iter, idx, rpc, rerr, before>>
    /\ UNCHANGED <<request, schema_path, schema_groovy, cmd, runs, returncode>>
    /\ UNCHANGED cvars

\* lines 213-217: without a schema go on; else parse it and call json_to_groovy
L_Schema ==
    /\ lpc = "schema"
    /\ IF ~TruthyText(request.schema_json)
       THEN /\ lpc' = "resolve"
            /\ UNCHANGED <<fs, response, cvars>>
       ELSE IF request.schema_json.k = "malformed"
       THEN /\ Fail("JSONDecodeError")
            /\ UNCHANGED cvars
       ELSE /\ schema_json' = request.schema_json.v
            /\ cpc' = "validate"
            /\ lpc' = "compile"
            /\ UNCHANGED <<schema, groovy_lines, cidx, cerr, script, fs, response>>
    /\ UNCHANGED <<request, schema_path, schema_groovy, cmd, runs, returncode>>
    /\ UNCHANGED rvars

\* lines 217-220: json_to_groovy has returned or raised; write the script
L_WriteSchema ==
    /\ lpc = "compile"
    /\ cpc \in {"returned", "raised"}
    /\ IF cpc = "raised"
       THEN /\ Fail(cerr)
            /\ UNCHANGED <<schema_path, schema_groovy>>
       ELSE /\ schema_groovy' = Some(script)
            /\ schema_path' = Some(SchemaFile)
            /\ \E ok \in BOOLEAN :
                  IF ok
                  THEN /\ fs' = WriteFile(fs, SchemaFile, [k |-> "groovy", v |-> script])
                       /\ lpc' = "resolve"
                       /\ UNCHANGED response
                  ELSE Fail("OSError")
    /\ UNCHANGED <<request, cmd, runs, returncode>>
    /\ UNCHANGED <<rvars, cvars>>

\* line 223: the call of update_file_paths_in_config(config_data, file_mapping)
L_CallResolve ==
    /\ lpc = "resolve"
    /\ rpc' = "copy"
    /\ before' = Dumps(heap, config)
    /\ lpc' = "resolving"
    /\ UNCHANGED <<heap, config, file_mapping, updated_config, iter, idx, rerr>>
    /\ UNCHANGED <<request, fs, schema_path, schema_groovy, cmd, runs, returncode, response>>
    /\ UNCHANGED cvars

\* lines 223-228: the resolver has returned or raised; write the configuration
L_WriteConfig ==
    /\ lpc = "resolving"
    /\ rpc \in {"returned", "raised"}
    /\ IF rpc = "raised"
       THEN Fail(rerr)
       ELSE \E ok \in BOOLEAN :
               IF ok
               THEN /\ fs' = WriteFile(fs, ConfigFile,
                                       [k |-> "json", v |-> Dumps(heap, updated_config)])
                    /\ lpc' = "run"
                    /\ UNCHANGED response
               ELSE Fail("OSError")
    /\ UNCHANGED <<request, schema_path, schema_groovy, cmd, runs, returncode>>
    /\ UNCHANGED <<rvars, cvars>>

\* lines 231-243: the command is built and run; starting it may fail
L_RunLoader ==
    /\ lpc = "run"
    /\ cmd' = LoaderCommand(ConfigFile, schema_path)
    /\ \E outcome \in {"not started", "exit 0", "exit 1"} :
          IF outcome = "not started"
          THEN /\ Fail("OSError")
               /\ UNCHANGED <<runs, returncode>>
          ELSE /\ runs' = runs + 1
               /\ returncode' = IF outcome = "exit 0" THEN 0 ELSE 1
               /\ lpc' = "respond"
               /\ UNCHANGED <<fs, response>>
    /\ UNCHANGED <<request, schema_path, schema_groovy>>
    /\ UNCHANGED <<rvars, cvars>>

\* lines 245-265: the response; the temporary directory is removed
L_Respond ==
    /\ lpc = "respond"
    /\ response' = Some([code |-> 200,
                         status |-> IF returncode # 0 THEN "error" ELSE "success"])
    /\ fs' = <<>>
    /\ lpc' = "done"
    /\ UNCHANGED <<request, schema_path, schema_groovy, cmd, runs, returncode>>
    /\ UNCHANGED <<rvars, cvars>>

LoadNext ==
    \/ L_ParseConfig
    \/ L_SaveFiles
    \/ L_Schema
    \/ L_WriteSchema
    \/ L_CallResolve
    \/ L_WriteConfig
    \/ L_RunLoader
    \/ L_Respond
    \/ R_Copy
    \/ R_Enter
    \/ R_Item
    \/ R_Leave
    \/ G_Validate
    \/ G_PropertyKey
    \/ G_AfterPropertyKeys
    \/ G_VertexLabel
    \/ G_AfterVertexLabels
    \/ G_EdgeLabel
    \/ G_Return

-----------------------------------------------------------------------------
(* The requests load_data is called with                                    *)

FileItem(p) == Labelled(<<M(K_input, InputOf(S_file, JStr(p)))>>)

LoadConfigs ==
    {Malformed,
     Text(ConfigDoc(Present(JArr(<<FileItem(P_da)>>)), Present(JArr(<<FileItem(P_b)>>)))),
     Text(ConfigDoc(Present(JArr(<<FileItem(P_dc), Labelled(<<>>)>>)), Absent)),
     Text(ConfigDoc(Present(JArr(<<Labelled(<<M(K_input, JObj(<<M(K_type, JStr(S_file))>>))>>)>>)),
                    Absent)),
     Text(ConfigDoc(Present(JStr(<<"x">>)), Absent)),
     Text(ConfigDoc(Absent, Absent)),
     Text(JNum(1))}

LoadSchemas ==
    {NoField, EmptyText, Malformed, Text(ListInput),
     Text(DictInput([property_keys |-> <<>>, vertex_labels |-> <<>>, edge_labels |-> <<>>])),
     Text(DictInput([property_keys |-> <<[name |-> "age", type |-> T_int]>>,
                     vertex_labels |-> <<[name |-> "person", properties |-> <<"age">>]>>,
                     edge_labels   |-> <<[name |-> "knows", source_label |-> "person",
                                          target_label |-> "person"]>>])),
     Text(DictInput([property_keys |-> <<[name |-> "age", type |-> T_nix]>>,
                     vertex_labels |-> <<>>, edge_labels |-> <<>>])),
     Text(DictInput([property_keys |-> <<[name |-> "age"]>>,
                     vertex_labels |-> <<>>, edge_labels |-> <<>>])),
     Text(DictInput([property_keys |-> <<>>, vertex_labels |-> <<>>]))}

Uploads == {<<<<"a">>>>, <<<<"a">>, <<"b">>>>}

Requests ==
    {[config |-> c, schema_json |-> sj, files |-> f] :
        c \in LoadConfigs, sj \in LoadSchemas, f \in Uploads}

InitLoad ==
    /\ request \in Requests
    /\ lpc = "parse_config"
    /\ fs = <<>>
    /\ schema_path = None
    /\ schema_groovy = None
    /\ cmd = <<>>
    /\ runs = 0
    /\ returncode = 0
    /\ response = None
    /\ ResolveIdle
    /\ CompileIdle

SpecLoad == InitLoad /\ [][LoadNext]_vars

-----------------------------------------------------------------------------
(* Claims about load_data                                                  *)

\* a schema dict whose elements have their mandatory fields
SchemaShaped(sj) ==
    /\ sj.k = "dict"
    /\ {"property_keys", "vertex_labels", "edge_labels"} \subseteq DOMAIN sj.v
    /\ \A i \in 1..Len(sj.v.property_keys) :
          {"name", "type"} \subseteq DOMAIN sj.v.property_keys[i]
    /\ \A i \in 1..Len(sj.v.vertex_labels) :
          {"name", "properties"} \subseteq DOMAIN sj.v.vertex_labels[i]
    /\ \A i \in 1..Len(sj.v.edge_labels) :
          {"name", "source_label", "target_label"} \subseteq DOMAIN sj.v.edge_labels[i]

\* a request with malformed JSON, or a schema or config of the wrong shape
BadInput(req) ==
    \/ req.config.k = "malformed"
    \/ req.config.k = "text" /\ ~WellShaped(req.config.v)
    \/ req.schema_json.k = "malformed"
    \/ req.schema_json.k = "text" /\ ~SchemaShaped(req.schema_json.v)

\* C9: a request with malformed JSON or a wrongly shaped schema or config
\* ends (unless a file could not be written first) in HTTP 400, decided
\* before the schema compiler, the path resolver or the external loader has
\* run.
C9_BadInputIsClientError ==
    (lpc = "done" /\ BadInput(request) /\ response[1].status # "OSError") =>
        /\ response[1].code = 400
        /\ cpc = "idle"
        /\ rpc = "idle"
        /\ runs = 0

\* the arguments that follow a flag in a command line
FlagArgs(c, flag) == {c[i + 1] : i \in {j \in 1..(Len(c) - 1) : c[j] = Word(flag)}}

SchemaSupplied == TruthyText(request.schema_json)

\* C10: the loader runs at most once per request, and when it has just run
\* the rewritten configuration is in its file and, if a schema was supplied,
\* the generated script is in its file; the command carries -f with the
\* configuration's path always and -s with the script's path iff a schema
\* was supplied; a request that failed at any step never ran the loader.
C10_LoaderRunsOnceAfterWrites ==
    /\ runs <= 1
    /\ runs = 1 =>
          /\ lpc \in {"respond", "done"}
          /\ FlagArgs(cmd, "-f") = {PathWord(ConfigFile)}
          /\ FlagArgs(cmd, "-s") = IF SchemaSupplied THEN {PathWord(SchemaFile)} ELSE {}
    /\ lpc = "respond" =>
          /\ runs = 1
          /\ rpc = "returned"
          /\ ConfigFile \in DOMAIN fs
          /\ fs[ConfigFile] = [k |-> "json", v |-> Dumps(heap, updated_config)]
          /\ SchemaSupplied =>
                /\ cpc = "returned"
                /\ SchemaFile \in DOMAIN fs
                /\ fs[SchemaFile] = [k |-> "groovy", v |-> script]
    /\ (response # None /\ response[1].code # 200) => runs = 0

\* the loader has just run for a request with a schema and a rewritten path
C10_Witness ==
    /\ lpc = "respond"
    /\ runs = 1
    /\ SchemaSupplied
    /\ Dumps(heap, updated_config) # before

====
